---------------------------- MODULE Spec2Model ----------------------------
(***************************************************************************)
(* exif_date_from_filename: a model of the filename-to-date parser chain   *)
(* (RegexNameParser, FolderNameParser, parse_date_from_filename) and of    *)
(* the metadata write path (update_exif_date, process_directory) of        *)
(* src/exif_date_from_filename.py.                                         *)
(*                                                                         *)
(* Text and byte strings are sequences of character codes (48..57 are the  *)
(* digits "0".."9").  A Python dict is a function whose DOMAIN is its key  *)
(* set.  What the libraries decide (regex matching, whether a file opens,  *)
(* whether a rename is refused) is an input chosen by the environment.     *)
(***************************************************************************)
EXTENDS Integers, Sequences, FiniteSets, TLC

VARIABLES
    wet_run, update, force,   \* process_directory's flags
    parsers,                  \* the parser chain load_config built
    files,                    \* the walk: the candidate files, in walk order
    disk,                     \* content found at each image_path
    run,                      \* which invocation of process_directory this is
    idx,                      \* position of the walk in files
    pc,                       \* position inside process_directory / update_exif_date
    date_taken,               \* update_exif_date's local
    exif_dict,                \* update_exif_date's local: the "Exif" IFD
    tmp,                      \* the temporary file of the current call
    retry,                    \* the retry loop's counter
    result,                   \* what the last call of update_exif_date returned
    updated_dirs,             \* process_directory's local set
    stray,                    \* directories holding a temp file of a finished call
    hist,                     \* what happened during the current call (history)
    disk0,                    \* the content of every file before the first run (history)
    changed,                  \* per file: how many renames replaced it (history)
    replaced,                 \* the files a rename replaced during this run (history)
    p_path, p_one, p_res      \* the parser specification: input path, results

vars == << wet_run, update, force, parsers, files, disk, run, idx, pc,
           date_taken, exif_dict, tmp, retry, result, updated_dirs, stray,
           hist, disk0, changed, replaced, p_path, p_one, p_res >>

(***************************************************************************)
(* Python values that reach int(): None, a str, or an int.                 *)
(***************************************************************************)
PyNone == [t |-> "none", s |-> << >>, v |-> 0]
PyStr(s) == [t |-> "str", s |-> s, v |-> 0]
PyInt(n) == [t |-> "int", s |-> << >>, v |-> n]

Digits == 48..57

RECURSIVE DecValue(_)
DecValue(s) ==
    IF s = << >> THEN 0
    ELSE 10 * DecValue(SubSeq(s, 1, Len(s) - 1)) + (s[Len(s)] - 48)

\* int(x): the value, or the exception int() raises.
PyIntOf(x) ==
    CASE x.t = "int" -> [exc |-> "", v |-> x.v]
      [] x.t = "none" -> [exc |-> "TypeError", v |-> 0]
      [] OTHER ->
           IF x.s # << >> /\ \A k \in 1..Len(x.s) : x.s[k] \in Digits
           THEN [exc |-> "", v |-> DecValue(x.s)]
           ELSE [exc |-> "ValueError", v |-> 0]

\* groupdict[key]
DictIndex(gd, key) ==
    IF key \in DOMAIN gd THEN [exc |-> "", val |-> gd[key]]
    ELSE [exc |-> "KeyError", val |-> PyNone]

\* groupdict.get(key, 0)
DictGet(gd, key) == IF key \in DOMAIN gd THEN gd[key] ELSE PyInt(0)

(***************************************************************************)
(* datetime(year, month, day, hour, minute, second)                        *)
(***************************************************************************)
IsLeap(y) == (y % 4 = 0) /\ ((y % 100 # 0) \/ (y % 400 = 0))

DaysInMonth(y, m) ==
    CASE m \in {1, 3, 5, 7, 8, 10, 12} -> 31
      [] m \in {4, 6, 9, 11} -> 30
      [] OTHER -> IF IsLeap(y) THEN 29 ELSE 28

NoDate == [year |-> 0, month |-> 0, day |-> 0, hour |-> 0, minute |-> 0, second |-> 0]

MkDate(a) ==
    [year |-> a[1], month |-> a[2], day |-> a[3],
     hour |-> a[4], minute |-> a[5], second |-> a[6]]

\* The exception the constructor raises for integer arguments a[1..6], or "".
\* (Arguments beyond a C int raise OverflowError instead; captured texts here
\* have at most four digits and stay far below that.)
DatetimeExc(a) ==
    IF /\ a[1] >= 1 /\ a[1] <= 9999
       /\ a[2] >= 1 /\ a[2] <= 12
       /\ a[3] >= 1 /\ a[3] <= DaysInMonth(a[1], a[2])
       /\ a[4] >= 0 /\ a[4] <= 23
       /\ a[5] >= 0 /\ a[5] <= 59
       /\ a[6] >= 0 /\ a[6] <= 59
    THEN ""
    ELSE "ValueError"

(***************************************************************************)
(* Parser results: a date, None, or an exception leaving the parser.       *)
(***************************************************************************)
RDate(d) == [kind |-> "date", exc |-> "", date |-> d]
RNone == [kind |-> "none", exc |-> "", date |-> NoDate]
RRaise(e) == [kind |-> "raise", exc |-> e, date |-> NoDate]

NoMatch == [matched |-> FALSE, groupdict |-> << >>]
Matched(gd) == [matched |-> TRUE, groupdict |-> gd]

\* The six argument expressions of the datetime(...) call, evaluated left to
\* right: each is the exception it raises, or its integer value.
ArgExprs(gd) ==
    LET idx3(key) == LET r == DictIndex(gd, key)
                     IN IF r.exc # "" THEN [exc |-> r.exc, v |-> 0]
                        ELSE PyIntOf(r.val)
    IN << idx3("year"), idx3("month"), idx3("day"),
          PyIntOf(DictGet(gd, "hour")),
          PyIntOf(DictGet(gd, "minute")),
          PyIntOf(DictGet(gd, "second")) >>

\* The exception handler of RegexNameParser.parse_date: except ValueError.
ParseDateCatch(e) == IF e = "ValueError" THEN RNone ELSE RRaise(e)

\* RegexNameParser.parse_date, given what self.regex.match(filename.stem) gave.
RegexParseDate(m) ==
    IF ~m.matched THEN RNone
    ELSE LET args == ArgExprs(m.groupdict)
             bad == {k \in 1..6 : args[k].exc # ""}
             first == CHOOSE k \in bad : \A j \in bad : k <= j
             ints == [k \in 1..6 |-> args[k].v]
         IN IF bad # {} THEN ParseDateCatch(args[first].exc)
            ELSE IF DatetimeExc(ints) # "" THEN ParseDateCatch(DatetimeExc(ints))
            ELSE RDate(MkDate(ints))

\* FolderNameParser.parse_date
FolderParseDate(parser, path) ==
    IF parser.folder_name \in path.parts THEN RDate(parser.date) ELSE RNone

\* parser.parse_date(filename), dispatched on the parser's class.
ParseDate(parser, path) ==
    IF parser.class = "filename_regex"
    THEN RegexParseDate(path.match[parser.name])
    ELSE FolderParseDate(parser, path)

\* The loop of parse_date_from_filename from parser i on; tried counts the
\* parsers whose parse_date was called.  "if date:" holds for every datetime
\* and fails for None; an exception of a parser leaves the loop.
RECURSIVE ChainFrom(_, _, _)
ChainFrom(chain, path, i) ==
    IF i > Len(chain) THEN [res |-> RNone, tried |-> i - 1]
    ELSE LET r == ParseDate(chain[i], path)
         IN IF r.kind = "none" THEN ChainFrom(chain, path, i + 1)
            ELSE [res |-> r, tried |-> i]

parse_date_from_filename(chain, path) == ChainFrom(chain, path, 1)

(***************************************************************************)
(* Inputs of the parser specification.                                     *)
(***************************************************************************)
\* The text of a digit string, e.g. Txt(<<2, 0, 2, 0>>) is "2020".
Txt(ds) == [k \in 1..Len(ds) |-> 48 + ds[k]]

\* Longest parser chain of the chain inputs.
MaxChain == 2

GroupNames == {"year", "month", "day", "hour", "minute", "second"}

\* A group the pattern does not name (no key in groupdict).
Absent == [t |-> "absent", s |-> << >>, v |-> 0]

\* What a group can hold after a match: not in the pattern, None (it took no
\* part in the match), or its captured text.
GroupTexts(key) ==
    CASE key = "year" -> {Txt(<<2, 0, 2, 0>>), Txt(<<2, 0, 2, 3>>), <<50, 48, 97>>}
      [] key = "month" -> {Txt(<<0, 2>>), Txt(<<0, 4>>), Txt(<<1, 3>>)}
      [] key = "day" -> {Txt(<<2, 9>>), Txt(<<3, 0>>), Txt(<<3, 1>>), Txt(<<0, 0>>)}
      [] key = "hour" -> {Txt(<<0, 7>>), Txt(<<2, 4>>)}
      [] key = "minute" -> {Txt(<<5, 9>>), Txt(<<6, 0>>)}
      [] OTHER -> {Txt(<<1, 1>>)}

GroupValues(key) ==
    {Absent, PyNone} \cup {PyStr(s) : s \in GroupTexts(key)}

\* The groupdict of a choice c of one value per group name.
GroupDictOf(c) == [key \in {g \in GroupNames : c[g] # Absent} |-> c[key]]

AllGroupDicts ==
    {GroupDictOf([year |-> y, month |-> mo, day |-> d, hour |-> h, minute |-> mi, second |-> s]) :
        y \in GroupValues("year"), mo \in GroupValues("month"), d \in GroupValues("day"),
        h \in GroupValues("hour"), mi \in GroupValues("minute"), s \in GroupValues("second")}

Gd(y, mo, d, h, mi, s) ==
    [key \in GroupNames |->
        PyStr(CASE key = "year" -> y [] key = "month" -> mo [] key = "day" -> d
                [] key = "hour" -> h [] key = "minute" -> mi [] OTHER -> s)]

\* 2015-06-08 07.00.11
GdA == Gd(Txt(<<2, 0, 1, 5>>), Txt(<<0, 6>>), Txt(<<0, 8>>),
          Txt(<<0, 7>>), Txt(<<0, 0>>), Txt(<<1, 1>>))
\* 2022-04-12 08.46.36
GdB == Gd(Txt(<<2, 0, 2, 2>>), Txt(<<0, 4>>), Txt(<<1, 2>>),
          Txt(<<0, 8>>), Txt(<<4, 6>>), Txt(<<3, 6>>))
\* month 13
GdBadMonth == [GdA EXCEPT !["month"] = PyStr(Txt(<<1, 3>>))]
\* an optional hour group that took no part in the match
GdNoHour == [GdA EXCEPT !["hour"] = PyNone]

RegexNames == {"ios", "wa"}
FolderNames == {"trip", "misc"}

DateA == [year |-> 2015, month |-> 6, day |-> 8, hour |-> 7, minute |-> 0, second |-> 11]
DateC == [year |-> 2019, month |-> 12, day |-> 9, hour |-> 0, minute |-> 0, second |-> 0]
DateD == [year |-> 2021, month |-> 6, day |-> 13, hour |-> 20, minute |-> 33, second |-> 4]

RegexParser(n) == [class |-> "filename_regex", name |-> n, folder_name |-> "", date |-> NoDate]
FolderParser(f, d) == [class |-> "folder", name |-> "", folder_name |-> f, date |-> d]

ParserPool ==
    {RegexParser("ios"), RegexParser("wa"), FolderParser("trip", DateC), FolderParser("misc", DateD)}

RECURSIVE SeqsUpTo(_, _)
SeqsUpTo(S, n) ==
    IF n = 0 THEN {<< >>}
    ELSE LET shorter == SeqsUpTo(S, n - 1)
         IN shorter \cup {Append(q, x) : q \in {z \in shorter : Len(z) = n - 1}, x \in S}

ChainMatches == {NoMatch, Matched(GdA), Matched(GdB), Matched(GdBadMonth), Matched(GdNoHour)}

ChainPaths ==
    {[parts |-> ps, match |-> m] : ps \in SUBSET FolderNames, m \in [RegexNames -> ChainMatches]}

\* One regex parser against every groupdict of the input sets.
ParsePaths ==
    {[parts |-> {}, match |-> [n \in RegexNames |-> Matched(gd)]] : gd \in AllGroupDicts}

(***************************************************************************)
(* The metadata record and the marker tag.                                 *)
(***************************************************************************)
\* piexif.ExifIFD.DateTimeOriginal
DateTimeOriginal == 36867

\* 0xfe69
PROCESSED_TAG_INDEX == 65129

\* "0.1.0"
VERSION == <<48, 46, 49, 46, 48>>

\* "exif_date_from_filename"
PROCESSED_TAG_NON_VARIABLE ==
    <<101, 120, 105, 102, 95, 100, 97, 116, 101, 95, 102, 114, 111, 109, 95,
      102, 105, 108, 101, 110, 97, 109, 101>>

\* f"{PROCESSED_TAG_NON_VARIABLE}_v{VERSION}"
PROCESSED_TAG == PROCESSED_TAG_NON_VARIABLE \o <<95, 118>> \o VERSION

\* bytes.decode("ascii") succeeds
IsAscii(b) == \A k \in 1..Len(b) : b[k] < 128

\* str.startswith
StartsWith(s, prefix) ==
    Len(s) >= Len(prefix) /\ SubSeq(s, 1, Len(prefix)) = prefix

\* d[key] = value on a dict
DictPut(d, key, value) ==
    [k \in (DOMAIN d) \cup {key} |-> IF k = key THEN value ELSE d[k]]

\* exif_dict["Exif"].get(PROCESSED_TAG_INDEX, b"")
MarkerOf(exif) ==
    IF PROCESSED_TAG_INDEX \in DOMAIN exif THEN exif[PROCESSED_TAG_INDEX] ELSE << >>

\* n as w decimal digits, zero padded
Pad(n, w) == [k \in 1..w |-> 48 + ((n \div (10 ^ (w - k))) % 10)]

\* date_taken.strftime("%Y:%m:%d %H:%M:%S").encode("utf-8"), for years of
\* four digits
FormatDate(d) ==
    Pad(d.year, 4) \o <<58>> \o Pad(d.month, 2) \o <<58>> \o Pad(d.day, 2) \o <<32>>
        \o Pad(d.hour, 2) \o <<58>> \o Pad(d.minute, 2) \o <<58>> \o Pad(d.second, 2)

\* The write condition with the "and update" operand dropped.
ShouldWriteNoUpdateCheck(exif, upd, frc) ==
    IF DateTimeOriginal \notin DOMAIN exif THEN "write"
    ELSE IF ~IsAscii(MarkerOf(exif)) THEN "error"
    ELSE IF StartsWith(MarkerOf(exif), PROCESSED_TAG_NON_VARIABLE) THEN "write"
    ELSE IF frc THEN "write"
    ELSE "skip"

\* The write condition of update_exif_date as Python evaluates it, left to
\* right with short circuit: "write", "skip", or "error" when decode raises.
ShouldWrite(exif, upd, frc) ==
    IF DateTimeOriginal \notin DOMAIN exif THEN "write"
    ELSE IF ~IsAscii(MarkerOf(exif)) THEN "error"
    ELSE IF StartsWith(MarkerOf(exif), PROCESSED_TAG_NON_VARIABLE) /\ upd THEN "write"
    ELSE IF frc THEN "write"
    ELSE "skip"

\* The two assignments into exif_dict["Exif"] before the dump.
SetTags(exif, d) ==
    DictPut(DictPut(exif, DateTimeOriginal, FormatDate(d)),
            PROCESSED_TAG_INDEX, PROCESSED_TAG)

(***************************************************************************)
(* Files.  A file is absent ("none"), created but empty, partly written,   *)
(* or complete; a complete image carries its Exif IFD.                     *)
(***************************************************************************)
NoFile == [state |-> "none", exif |-> << >>]
EmptyFile == [state |-> "empty", exif |-> << >>]
PartialFile == [state |-> "partial", exif |-> << >>]
Image(exif) == [state |-> "complete", exif |-> exif]

\* How often process_directory is invoked on the same tree with the same flags.
MaxRuns == 2

\* max_retries
max_retries == 3

\* "2001:01:01 00:00:00", a timestamp some other software wrote
OtherStamp ==
    FormatDate([year |-> 2001, month |-> 1, day |-> 1, hour |-> 0, minute |-> 0, second |-> 0])

\* Marker values a file can carry: this version's, an older version's, one
\* with the prefix followed by a byte that is not ASCII, ASCII text of other
\* software ("other"), and bytes of other software that are not ASCII.
MarkerValues ==
    { PROCESSED_TAG,
      PROCESSED_TAG_NON_VARIABLE \o <<95, 118, 48, 46, 48, 46, 57>>,
      PROCESSED_TAG_NON_VARIABLE \o <<255>>,
      <<111, 116, 104, 101, 114>>,
      <<255, 254>> }

WithMarker(exif) == {exif} \cup {DictPut(exif, PROCESSED_TAG_INDEX, m) : m \in MarkerValues}

InitialExifs ==
    WithMarker(<< >>) \cup WithMarker(DictPut(<< >>, DateTimeOriginal, OtherStamp))

PlainExifs == {<< >>, DictPut(<< >>, DateTimeOriginal, OtherStamp)}

\* File names: one the first parser dates, one no parser matches, one whose
\* optional hour group took no part in the match.
PathDated == [parts |-> {}, match |-> [n \in RegexNames |-> IF n = "ios" THEN Matched(GdA) ELSE NoMatch]]
PathPlain == [parts |-> {}, match |-> [n \in RegexNames |-> NoMatch]]
PathNoHour == [parts |-> {}, match |-> [n \in RegexNames |-> IF n = "ios" THEN Matched(GdNoHour) ELSE NoMatch]]
PathInFolder == [parts |-> {"trip"}, match |-> [n \in RegexNames |-> NoMatch]]

MainPaths == {PathDated, PathPlain, PathNoHour, PathInFolder}

MainChain == <<RegexParser("ios"), FolderParser("trip", DateC)>>

File(d, path, image) == [dir |-> d, path |-> path, image |-> image]

NoHist ==
    [file |-> 0, prior |-> 0, pre |-> << >>, new |-> NoFile, created |-> FALSE, renamed |-> FALSE,
     saved |-> 0, decided |-> "none", perm_failed |-> FALSE, free_after_perm |-> FALSE,
     remove_failed |-> FALSE, attempts |-> 0, after |-> ""]

(***************************************************************************)
(* process_directory and update_exif_date.                                 *)
(***************************************************************************)
config == << wet_run, update, force, parsers, files, disk0 >>
parserVars == << p_path, p_one, p_res >>

ParserIdle ==
    /\ p_path = PathPlain
    /\ p_one = [k |-> 0, r |-> RNone]
    /\ p_res = [done |-> FALSE, res |-> RNone, tried |-> 0]

Locals ==
    /\ run = 1 /\ idx = 1 /\ pc = "walk"
    /\ date_taken = NoDate /\ exif_dict = << >>
    /\ tmp = NoFile /\ retry = 0 /\ result = FALSE
    /\ updated_dirs = {} /\ stray = {}
    /\ hist = NoHist
    /\ disk0 = disk
    /\ changed = [i \in 1..Len(files) |-> 0]
    /\ replaced = {}

\* A tree of one image, with any metadata record.
InitOneFile ==
    /\ \E path \in MainPaths : files = << File("d1", path, TRUE) >>
    /\ \E exif \in InitialExifs : disk = << Image(exif) >>

\* A tree of two directories; the second file may be no image by its suffix.
InitTwoDirs ==
    /\ \E p1 \in MainPaths \ {PathInFolder}, p2 \in MainPaths \ {PathInFolder}, img \in BOOLEAN :
          files = << File("d1", p1, TRUE), File("d2", p2, img) >>
    /\ \E e1 \in PlainExifs, e2 \in PlainExifs : disk = << Image(e1), Image(e2) >>

Init ==
    /\ wet_run \in BOOLEAN /\ update \in BOOLEAN /\ force \in BOOLEAN
    /\ parsers = MainChain
    /\ (InitOneFile \/ InitTwoDirs)
    /\ Locals
    /\ ParserIdle

\* update_exif_date returns val.
Ret(val) == pc' = "returned" /\ result' = val

\* wet_run passed on as it is.
DryRunArgMutant == wet_run

\* The dry_run argument process_directory passes: not wet_run.
DryRunArg == ~wet_run

\* The image saved in place, over image_path.
SaveDestMutant == "image"

\* The file img.save writes into: tmp.name.
SaveDest == "tmp"

\* for filename in sorted(file_names): the suffix filter, then the call.
WalkNext ==
    /\ pc = "walk" /\ idx <= Len(files)
    /\ IF ~files[idx].image
       THEN /\ idx' = idx + 1
            /\ UNCHANGED << pc, hist, date_taken, exif_dict, retry >>
       ELSE /\ pc' = "parse"
            /\ hist' = [NoHist EXCEPT !.file = idx, !.prior = changed[idx], !.pre = disk]
            /\ date_taken' = NoDate /\ exif_dict' = << >> /\ retry' = 0
            /\ UNCHANGED idx
    /\ UNCHANGED << config, parserVars, disk, run, tmp, result, updated_dirs, stray, changed, replaced >>

\* date_taken = parse_date_from_filename(...); the two early returns.  An
\* exception of a parser is caught nowhere: it ends process_directory.
ParseFilename ==
    /\ pc = "parse"
    /\ LET r == parse_date_from_filename(parsers, files[idx].path).res
       IN CASE r.kind = "raise" -> pc' = "raised" /\ UNCHANGED << date_taken, result >>
            [] r.kind = "none" -> Ret(FALSE) /\ UNCHANGED date_taken
            [] OTHER -> /\ date_taken' = r.date
                        /\ IF DryRunArg THEN Ret(FALSE)
                           ELSE pc' = "open" /\ UNCHANGED result
    /\ UNCHANGED << config, parserVars, disk, run, idx, exif_dict, tmp, retry,
                    updated_dirs, stray, hist, changed, replaced >>

\* img = Image.open(image_path), which may fail.
OpenImage ==
    /\ pc = "open"
    /\ \E ok \in BOOLEAN : IF ok THEN pc' = "load" /\ UNCHANGED result ELSE Ret(FALSE)
    /\ UNCHANGED << config, parserVars, disk, run, idx, date_taken, exif_dict, tmp,
                    retry, updated_dirs, stray, hist, changed, replaced >>

\* exif_dict = piexif.load(...) or the empty skeleton; load may raise.
LoadExif ==
    /\ pc = "load"
    /\ \E ok \in BOOLEAN :
          IF ok THEN exif_dict' = disk[idx].exif /\ pc' = "check" /\ UNCHANGED result
          ELSE Ret(FALSE) /\ UNCHANGED exif_dict
    /\ UNCHANGED << config, parserVars, disk, run, idx, date_taken, tmp,
                    retry, updated_dirs, stray, hist, changed, replaced >>

\* The write condition and, when it holds, the two tag assignments.
CheckDate ==
    /\ pc = "check"
    /\ LET w == ShouldWrite(exif_dict, update, force)
       IN /\ hist' = [hist EXCEPT !.decided = w]
          /\ IF w = "write"
             THEN exif_dict' = SetTags(exif_dict, date_taken) /\ pc' = "dump" /\ UNCHANGED result
             ELSE Ret(FALSE) /\ UNCHANGED exif_dict
    /\ UNCHANGED << config, parserVars, disk, run, idx, date_taken, tmp,
                    retry, updated_dirs, stray, changed, replaced >>

\* exif_bytes = piexif.dump(exif_dict), which may raise.
DumpExif ==
    /\ pc = "dump"
    /\ \E ok \in BOOLEAN :
          IF ok THEN hist' = [hist EXCEPT !.new = Image(exif_dict)] /\ pc' = "mktemp"
                     /\ UNCHANGED result
          ELSE Ret(FALSE) /\ UNCHANGED hist
    /\ UNCHANGED << config, parserVars, disk, run, idx, date_taken, exif_dict, tmp,
                    retry, updated_dirs, stray, changed, replaced >>

\* tempfile.NamedTemporaryFile(delete=False, ..., dir=image_path.parent)
CreateTemp ==
    /\ pc = "mktemp"
    /\ \E ok \in BOOLEAN :
          IF ok THEN /\ tmp' = EmptyFile /\ pc' = "save"
                     /\ hist' = [hist EXCEPT !.created = TRUE]
                     /\ UNCHANGED result
          ELSE Ret(FALSE) /\ UNCHANGED << tmp, hist >>
    /\ UNCHANGED << config, parserVars, disk, run, idx, date_taken, exif_dict,
                    retry, updated_dirs, stray, changed, replaced >>

\* img.save(...) writes its destination piece by piece: after the first
\* piece the file is partial, after the last it is the re-encoded image.
SaveWrite ==
    /\ pc = "save"
    /\ LET piece == IF hist.saved = 0 THEN PartialFile ELSE hist.new
       IN IF SaveDest = "tmp"
          THEN tmp' = piece /\ UNCHANGED disk
          ELSE disk' = [disk EXCEPT ![idx] = piece] /\ UNCHANGED tmp
    /\ hist' = [hist EXCEPT !.saved = @ + 1]
    /\ pc' = IF hist.saved = 0 THEN "save" ELSE "close"
    /\ UNCHANGED << config, parserVars, run, idx, date_taken, exif_dict, retry, result,
                    updated_dirs, stray, changed, replaced >>

\* img.save raises: the with block closes tmp and the outer handler returns.
SaveFail ==
    /\ pc = "save"
    /\ Ret(FALSE)
    /\ UNCHANGED << config, parserVars, disk, run, idx, date_taken, exif_dict, tmp,
                    retry, updated_dirs, stray, hist, changed, replaced >>

\* The with block ends; img.close(); the retry loop starts.
CloseImage ==
    /\ pc = "close"
    /\ pc' = "replace" /\ retry' = 0
    /\ UNCHANGED << config, parserVars, disk, run, idx, date_taken, exif_dict, tmp,
                    result, updated_dirs, stray, hist, changed, replaced >>

\* One os.replace(tmp.name, image_path), which the operating system performs
\* atomically.  env is what the file system would answer for an existing
\* source: "ok", "locked" (PermissionError) or "error" (another OSError); a
\* missing source is FileNotFoundError.
Replace ==
    /\ pc = "replace"
    /\ \E env \in {"ok", "locked", "error"} :
          LET outcome == IF tmp.state = "none" THEN "error" ELSE env
              h == [hist EXCEPT !.attempts = @ + 1,
                                !.free_after_perm = @ \/ (hist.perm_failed /\ env = "ok")]
          IN CASE outcome = "ok" ->
                    /\ disk' = [disk EXCEPT ![idx] = tmp]
                    /\ tmp' = NoFile
                    /\ changed' = [changed EXCEPT ![idx] = @ + 1]
                    /\ replaced' = replaced \cup {idx}
                    /\ hist' = [h EXCEPT !.renamed = TRUE, !.after = "break"]
               [] outcome = "locked" ->
                    /\ hist' = [h EXCEPT !.perm_failed = TRUE,
                                         !.after = IF retry < max_retries - 1
                                                   THEN "continue" ELSE "fall"]
                    /\ UNCHANGED << disk, tmp, changed, replaced >>
               [] OTHER ->
                    /\ hist' = [h EXCEPT !.after = "fall"]
                    /\ UNCHANGED << disk, tmp, changed, replaced >>
    /\ pc' = "finally"
    /\ UNCHANGED << config, parserVars, run, idx, date_taken, exif_dict, retry,
                    result, updated_dirs, stray >>

\* finally: os.remove(tmp.name), its errors ignored; then break leaves the
\* loop, anything else goes to the next iteration if there is one.
Cleanup ==
    /\ pc = "finally"
    /\ \E ok \in BOOLEAN :
          /\ tmp' = IF tmp.state # "none" /\ ok THEN NoFile ELSE tmp
          /\ hist' = [hist EXCEPT !.remove_failed = @ \/ (tmp.state # "none" /\ ~ok)]
    /\ IF hist.after = "break" \/ retry + 1 >= max_retries
       THEN pc' = "ret" /\ UNCHANGED retry
       ELSE pc' = "replace" /\ retry' = retry + 1
    /\ UNCHANGED << config, parserVars, disk, run, idx, date_taken, exif_dict,
                    result, updated_dirs, stray, changed, replaced >>

\* _LOGGER.info("Updated EXIF date ..."); return True
ReturnUpdated ==
    /\ pc = "ret"
    /\ Ret(TRUE)
    /\ UNCHANGED << config, parserVars, disk, run, idx, date_taken, exif_dict, tmp,
                    retry, updated_dirs, stray, hist, changed, replaced >>

\* if updated: updated_dirs.add(dir_path); the loop goes on.  A temp file the
\* call left behind stays in the directory.
AfterCall ==
    /\ pc = "returned"
    /\ updated_dirs' = IF result THEN updated_dirs \cup {files[idx].dir} ELSE updated_dirs
    /\ stray' = IF tmp.state # "none" THEN stray \cup {files[idx].dir} ELSE stray
    /\ tmp' = NoFile
    /\ idx' = idx + 1
    /\ pc' = "walk"
    /\ UNCHANGED << config, parserVars, disk, run, date_taken, exif_dict, retry,
                    result, hist, changed, replaced >>

\* The walk is over: the updated directories are printed.
Report ==
    /\ pc = "walk" /\ idx > Len(files)
    /\ pc' = "done"
    /\ UNCHANGED << config, parserVars, disk, run, idx, date_taken, exif_dict, tmp,
                    retry, result, updated_dirs, stray, hist, changed, replaced >>

\* process_directory is invoked again on the same tree with the same flags.
Rerun ==
    /\ pc = "done" /\ run < MaxRuns
    /\ run' = run + 1 /\ idx' = 1 /\ updated_dirs' = {} /\ pc' = "walk"
    /\ replaced' = {}
    /\ UNCHANGED << config, parserVars, disk, date_taken, exif_dict, tmp,
                    retry, result, stray, hist, changed >>

InCall ==
    pc \in {"parse", "open", "load", "check", "dump", "mktemp", "save", "close",
            "replace", "finally", "ret", "returned"}

\* The process is terminated in the middle of a call.
Terminate ==
    /\ InCall
    /\ pc' = "killed"
    /\ UNCHANGED << config, parserVars, disk, run, idx, date_taken, exif_dict, tmp,
                    retry, result, updated_dirs, stray, hist, changed, replaced >>

Next ==
    \/ WalkNext \/ ParseFilename \/ OpenImage \/ LoadExif \/ CheckDate
    \/ DumpExif \/ CreateTemp \/ SaveWrite \/ SaveFail \/ CloseImage
    \/ Replace \/ Cleanup \/ ReturnUpdated \/ AfterCall \/ Report \/ Rerun
    \/ Terminate

Spec == Init /\ [][Next]_vars

(***************************************************************************)
(* The parser specification: the parsers applied to drawn inputs.          *)
(***************************************************************************)
MainIdle ==
    /\ wet_run = FALSE /\ update = FALSE /\ force = FALSE
    /\ files = << >> /\ disk = << >>
    /\ Locals

InitParse ==
    /\ \/ parsers \in SeqsUpTo(ParserPool, MaxChain) /\ p_path \in ChainPaths
       \/ parsers = << RegexParser("ios") >> /\ p_path \in ParsePaths
    /\ p_one = [k |-> 0, r |-> RNone]
    /\ p_res = [done |-> FALSE, res |-> RNone, tried |-> 0]
    /\ MainIdle

mainVars ==
    << wet_run, update, force, files, disk, run, idx, pc, date_taken, exif_dict,
       tmp, retry, result, updated_dirs, stray, hist, disk0, changed, replaced >>

\* parser.parse_date(filename) for one parser of the chain
ApplyParseDate ==
    /\ p_one.k = 0
    /\ \E k \in 1..Len(parsers) : p_one' = [k |-> k, r |-> ParseDate(parsers[k], p_path)]
    /\ UNCHANGED << mainVars, parsers, p_path, p_res >>

\* parse_date_from_filename(parsers, filename)
ApplyChain ==
    /\ ~p_res.done
    /\ LET c == parse_date_from_filename(parsers, p_path)
       IN p_res' = [done |-> TRUE, res |-> c.res, tried |-> c.tried]
    /\ UNCHANGED << mainVars, parsers, p_path, p_one >>

NextParse == ApplyParseDate \/ ApplyChain

SpecParse == InitParse /\ [][NextParse]_vars

(***************************************************************************)
(* Properties.                                                             *)
(***************************************************************************)
\* The metadata record the current (or last) call found in its file.
FoundExif == hist.pre[hist.file].exif

\* The file of index i resolves to a date under the configured chain.
Resolves(i) == parse_date_from_filename(parsers, files[i].path).res.kind = "date"

\* C1: at every step of the write path, termination and failed saves and
\* renames included, what is found at every image path is a complete file:
\* the one found when the call began or, after a successful rename, the
\* re-encoded one; no other file is touched; a rename is attempted only once
\* the temp file has been written completely; and as long as no rename has
\* succeeded every file is identical to its state before the call.
C1_AtomicReplace ==
    /\ \A i \in 1..Len(disk) : disk[i].state = "complete"
    /\ hist.file # 0 =>
          /\ \A i \in 1..Len(disk) : i # hist.file => disk[i] = hist.pre[i]
          /\ IF hist.renamed
             THEN disk[hist.file] = hist.new /\ hist.new.state = "complete"
             ELSE disk = hist.pre
          /\ pc \in {"replace", "finally", "ret"} =>
                tmp.state = "none" \/ (tmp.state = "complete" /\ tmp = hist.new)
          /\ hist.attempts > 0 => hist.new.state = "complete"

\* C1 witness: the process was terminated after the temp file was written
\* completely and before any rename; the image is as it was.
C1_Witness ==
    /\ pc = "killed" /\ tmp.state = "complete" /\ hist.attempts = 0
    /\ tmp # disk[hist.file] /\ disk = hist.pre

\* C5: without wet_run nothing is mutated: no call gets past the dry-run
\* return, no temp file is created, nothing is renamed, every file is as
\* before the first run, every call returns not-updated and the set of
\* updated directories stays empty.
C5_DryRunMutatesNothing ==
    ~wet_run =>
        /\ disk = disk0
        /\ tmp = NoFile /\ stray = {}
        /\ ~hist.created /\ hist.attempts = 0 /\ hist.decided = "none"
        /\ pc \in {"walk", "parse", "returned", "raised", "killed", "done"}
        /\ result = FALSE
        /\ updated_dirs = {} /\ replaced = {}

\* C5 witness: a dry batch with force and update set has finished over a
\* file that resolves to a date and has no timestamp tag.
C5_Witness ==
    /\ ~wet_run /\ force /\ update /\ pc = "done"
    /\ \E i \in 1..Len(files) :
          files[i].image /\ Resolves(i) /\ DateTimeOriginal \notin DOMAIN disk[i].exif

\* The second half of the idempotence statement: a call on a file that an
\* earlier run replaced decides nothing but "skip", creates no temp file,
\* attempts no rename and returns not-updated.
NoSecondWrite ==
    hist.prior >= 1 =>
        /\ hist.decided \in {"none", "skip"}
        /\ ~hist.created /\ hist.attempts = 0
        /\ pc = "returned" => result = FALSE

\* C4 as stated: with allow_update=false, whatever force is, a run after one
\* that replaced the file performs no write.
C4_IdempotentAnyForce == ~update => NoSecondWrite

\* C4 amended: with allow_update=false and force=false, a run after one that
\* replaced the file performs no write and reports not-updated, and no file
\* is replaced more than once.
C4_IdempotentNoForce ==
    (~update /\ ~force) =>
        /\ NoSecondWrite
        /\ \A i \in 1..Len(files) : changed[i] <= 1

\* C4 witness: the second run returned "already set" on a file the first run
\* replaced.
C4_Witness ==
    /\ ~update /\ ~force /\ run = 2 /\ hist.prior = 1
    /\ pc = "returned" /\ hist.decided = "skip" /\ result = FALSE

\* C2: in a wet run with force=false the call decides to write exactly when
\* the timestamp tag is absent, or the marker tag starts with the reserved
\* prefix and allow_update is set; otherwise nothing is written, the file is
\* unchanged and the call returns not-updated.
C2_WriteIffUnsetOrOurs ==
    (~force /\ hist.decided # "none") =>
        LET ours == /\ PROCESSED_TAG_INDEX \in DOMAIN FoundExif
                    /\ StartsWith(FoundExif[PROCESSED_TAG_INDEX], PROCESSED_TAG_NON_VARIABLE)
            cond == DateTimeOriginal \notin DOMAIN FoundExif \/ (ours /\ update)
        IN /\ (hist.decided = "write") <=> cond
           /\ ~cond => /\ ~hist.created /\ disk = hist.pre
                       /\ pc = "returned" => result = FALSE

\* C3: with force=true a call whose image opened and decoded always decides to
\* write, and sets the timestamp tag and the marker tag.
C3_ForceAlwaysWrites ==
    (force /\ hist.decided # "none") =>
        /\ hist.decided = "write"
        /\ exif_dict[DateTimeOriginal] = FormatDate(date_taken)
        /\ exif_dict[PROCESSED_TAG_INDEX] = PROCESSED_TAG

\* Where C2 and C3 hold: on files whose marker bytes, if a timestamp is
\* present, decode as ASCII.
AsciiMarker == DateTimeOriginal \in DOMAIN FoundExif => IsAscii(MarkerOf(FoundExif))

WriteIffUnsetOrOursAscii == (hist.file # 0 /\ AsciiMarker) => C2_WriteIffUnsetOrOurs

ForceWritesAscii == (hist.file # 0 /\ AsciiMarker) => C3_ForceAlwaysWrites

\* C6: at most max_retries renames are attempted, and when one was refused
\* with PermissionError and the lock was free at a later attempt, the call
\* ends with the image replaced by the re-encoded file (even leaving aside
\* the runs in which os.remove itself failed).
C6_RetryRenames ==
    /\ hist.attempts <= max_retries
    /\ (pc \in {"ret", "returned"} /\ hist.free_after_perm /\ ~hist.remove_failed) =>
          hist.renamed /\ disk[hist.file] = hist.new

\* C7: a call returns True only if a rename replaced the image, and every
\* updated directory holds a file that was replaced during this run.
C7_FailureReported ==
    /\ (pc = "returned" /\ result) => hist.renamed
    /\ \A d \in updated_dirs : \E i \in replaced : files[i].dir = d

\* C8: a call that created a temp file returns with no temp file left (even
\* leaving aside the runs in which os.remove itself failed).
C8_TempCleanedUp ==
    (pc = "returned" /\ hist.created /\ ~hist.remove_failed) => tmp.state = "none"

\* What the claim says RegexNameParser.parse_date gives for a groupdict:
\* none unless year, month and day are integers, with hour, minute and second
\* counting as 0 when missing or None, and the fields form a valid date.
IsNumber(x) == x.t = "str" /\ x.s # << >> /\ \A k \in 1..Len(x.s) : x.s[k] \in Digits

ClaimedParse(gd) ==
    LET req(key) == key \in DOMAIN gd /\ IsNumber(gd[key])
        zero(key) == key \notin DOMAIN gd \/ gd[key] = PyNone
        opt(key) == zero(key) \/ IsNumber(gd[key])
        val(key) == IF zero(key) THEN 0 ELSE DecValue(gd[key].s)
        ints == << val("year"), val("month"), val("day"),
                   val("hour"), val("minute"), val("second") >>
    IN IF /\ req("year") /\ req("month") /\ req("day")
          /\ opt("hour") /\ opt("minute") /\ opt("second")
          /\ DatetimeExc(ints) = ""
       THEN RDate(MkDate(ints))
       ELSE RNone

\* C9: RegexNameParser.parse_date never raises: it gives the date of the
\* groups, with missing or unmatched optional groups as 0, or none.
C9_ParseNeverRaises ==
    (p_one.k # 0 /\ parsers[p_one.k].class = "filename_regex") =>
        LET m == p_path.match[parsers[p_one.k].name]
        IN /\ p_one.r.kind # "raise"
           /\ p_one.r = IF m.matched THEN ClaimedParse(m.groupdict) ELSE RNone

\* C10: parse_date_from_filename returns the date of the earliest parser of
\* the chain that yields one, evaluating no parser after it, and none when
\* every parser declines.
C10_FirstMatchWins ==
    p_res.done =>
        LET yields == {k \in 1..Len(parsers) : ParseDate(parsers[k], p_path).kind = "date"}
            raises == {k \in 1..Len(parsers) : ParseDate(parsers[k], p_path).kind = "raise"}
            first == CHOOSE k \in yields : \A j \in yields : k <= j
        IN IF yields # {}
           THEN p_res.res = ParseDate(parsers[first], p_path) /\ p_res.tried = first
           ELSE (p_res.res = RNone) <=> (raises = {})

\* Where C10 holds: on chains and paths where no parser raises before the
\* first one that yields a date.
FirstMatchWinsUnlessRaise ==
    LET yields == {k \in 1..Len(parsers) : ParseDate(parsers[k], p_path).kind = "date"}
        raises == {k \in 1..Len(parsers) : ParseDate(parsers[k], p_path).kind = "raise"}
    IN (\A k \in raises : \E j \in yields : j < k) => C10_FirstMatchWins

=============================================================================
